---- MODULE Spec2Model ----
(***************************************************************************)
(* A model of the ARM7TDMI core of gba-mu: the banked register file, the   *)
(* status registers, the barrel shifter (aluShift), the data-processing    *)
(* handler (executeAluInstruction) and step().                             *)
(*                                                                         *)
(* A 32-bit word is the set of its bit positions that hold 1, a subset of  *)
(* 0..31 (0x80000001 is {0, 31}); a uint64_t is a subset of 0..63.  All    *)
(* arithmetic is done bit by bit at the width the C++ expression has.      *)
(***************************************************************************)
EXTENDS Integers, FiniteSets, Sequences, TLC

(***************************************************************************)
(* Bounds of the exploration.                                              *)
(***************************************************************************)
MaxSets == 2
MaxExecs == 1
MaxBankOps == 4

(***************************************************************************)
(* Words.                                                                  *)
(***************************************************************************)
Bits32 == 0..31

RECURSIVE Pow2(_)
Pow2(n) == IF n = 0 THEN 1 ELSE 2 * Pow2(n - 1)

\* the word of a small non-negative integer (n < 2^31)
WordOf(n) == {i \in 0..30 : (n \div Pow2(i)) % 2 = 1}

Bit(w, i) == IF i \in w THEN 1 ELSE 0

RECURSIVE SumBits(_, _, _)
SumBits(w, lo, n) ==
    IF n = 0 THEN 0 ELSE Bit(w, lo) + 2 * SumBits(w, lo + 1, n - 1)

\* the integer held by the n bits of w from bit lo up: (w >> lo) & (2^n - 1)
Field(w, lo, n) == SumBits(w, lo, n)

Zero32 == {}
Not32(w) == Bits32 \ w
And32(a, b) == a \cap b
Or32(a, b) == a \cup b
Xor32(a, b) == (a \ b) \cup (b \ a)
Trunc32(w) == w \cap Bits32

RECURSIVE AddFrom(_, _, _, _)
AddFrom(a, b, c, i) ==
    IF i = 32 THEN (IF c = 1 THEN {32} ELSE {})
    ELSE LET n == Bit(a, i) + Bit(b, i) + c
         IN  (IF n % 2 = 1 THEN {i} ELSE {}) \cup AddFrom(a, b, n \div 2, i + 1)

\* a + b + c without truncation: bit 32 is the carry out of bit 31
AddWide(a, b, c) == AddFrom(a, b, c, 0)

\* uint32_t addition and subtraction (wrap around)
Add32(a, b) == Trunc32(AddWide(a, b, 0))
Sub32(a, b) == Trunc32(AddWide(a, Not32(b), 1))

\* a < b on uint32_t: the highest bit where they differ is set in b
RECURSIVE ULessFrom(_, _, _)
ULessFrom(a, b, i) ==
    IF i < 0 THEN FALSE
    ELSE IF (i \in a) = (i \in b) THEN ULessFrom(a, b, i - 1)
    ELSE i \in b

ULess(a, b) == ULessFrom(a, b, 31)

\* value << n and value >> n on uint32_t for 0 <= n <= 31
Shl32(w, n) == {i + n : i \in w} \cap Bits32
Shr32(w, n) == {i - n : i \in w} \cap Bits32

(***************************************************************************)
(* Program constants.                                                      *)
(***************************************************************************)
PC_REGISTER == 15
BOOT_LOCATION == 0

USER == 16
FIQ == 17
IRQ == 18
SUPERVISOR == 19
ABORT == 23
UNDEFINED == 27
SYSTEM == 31

ValidModes == {USER, FIQ, IRQ, SUPERVISOR, ABORT, UNDEFINED, SYSTEM}

(***************************************************************************)
(* State.                                                                  *)
(***************************************************************************)
VARIABLES
    cells,        \* the storage cells r0..r15, r8_fiq..r14_und: name -> word
    cpsr,         \* the current ProgramStatusRegister
    spsr,         \* SPSR_fiq, SPSR_svc, SPSR_abt, SPSR_irq, SPSR_und
    overflowBit,  \* the uint8_t members the ALU helpers share
    carryBit,
    zeroBit,
    signBit,
    aborted,      \* the process was ended by a failed assert
    ndebug,       \* the build defines NDEBUG (assert compiled out)
    ubShift,      \* what the build makes of a shift by 32 or more
    last,         \* the operation performed last and the values it used
    lastWrite,    \* per banked slot, the value last written through it
    nSets,        \* operations performed so far, by kind
    nExecs

vars == <<cells, cpsr, spsr, overflowBit, carryBit, zeroBit, signBit, aborted,
          ndebug, ubShift, last, lastWrite, nSets, nExecs>>

\* ProgramStatusRegister {Mode, T, F, I, Reserved, Q, V, C, Z, N} = {0, ...}
PsrZero ==
    [Mode |-> 0, T |-> 0, F |-> 0, I |-> 0, Reserved |-> 0, Q |-> 0,
     V |-> 0, C |-> 0, Z |-> 0, N |-> 0]

SpsrNames == {"SPSR_fiq", "SPSR_svc", "SPSR_abt", "SPSR_irq", "SPSR_und"}

\* registers[index] of the unbanked file
UserCells ==
    <<"r0", "r1", "r2", "r3", "r4", "r5", "r6", "r7", "r8", "r9", "r10",
      "r11", "r12", "r13", "r14", "r15">>

BankedCells ==
    {"r8_fiq", "r9_fiq", "r10_fiq", "r11_fiq", "r12_fiq", "r13_fiq", "r14_fiq",
     "r13_irq", "r14_irq", "r13_svc", "r14_svc", "r13_abt", "r14_abt",
     "r13_und", "r14_und"}

AllCells == {UserCells[i] : i \in 1..16} \cup BankedCells

\* the initialisers of the cells: all 0 but r8_fiq = 69
CellsInit == [c \in AllCells |-> IF c = "r8_fiq" THEN WordOf(69) ELSE Zero32]

registers(index) == UserCells[index + 1]

\* The per-mode pointer tables that getRegister and setRegister dereference.
\* FIQ banks R8-R14; IRQ, Supervisor, Abort and Undefined bank R13-R14.
fiqRegisters(index) ==
    IF index \in 8..14
    THEN <<"r8_fiq", "r9_fiq", "r10_fiq", "r11_fiq", "r12_fiq", "r13_fiq",
           "r14_fiq">>[index - 7]
    ELSE UserCells[index + 1]

irqRegisters(index) ==
    IF index = 13 THEN "r13_irq" ELSE IF index = 14 THEN "r14_irq"
    ELSE UserCells[index + 1]

svcRegisters(index) ==
    IF index = 13 THEN "r13_svc" ELSE IF index = 14 THEN "r14_svc"
    ELSE UserCells[index + 1]

abtRegisters(index) ==
    IF index = 13 THEN "r13_abt" ELSE IF index = 14 THEN "r14_abt"
    ELSE UserCells[index + 1]

undRegisters(index) ==
    IF index = 13 THEN "r13_und" ELSE IF index = 14 THEN "r14_und"
    ELSE UserCells[index + 1]

\* uint32_t getRegister(uint8_t index), reading cpsr c and cells cl
getRegister(c, cl, index) ==
    IF c.Mode = USER THEN cl[registers(index)]
    ELSE IF c.Mode = FIQ THEN cl[fiqRegisters(index)]
    ELSE IF c.Mode = IRQ THEN cl[irqRegisters(index)]
    ELSE IF c.Mode = SUPERVISOR THEN cl[svcRegisters(index)]
    ELSE IF c.Mode = ABORT THEN cl[abtRegisters(index)]
    ELSE IF c.Mode = UNDEFINED THEN cl[undRegisters(index)]
    ELSE cl[registers(index)]

\* a plausible slip: the Supervisor branch goes through the IRQ table
setRegisterSvcThroughIrq(c, cl, index, value) ==
    IF c.Mode = USER THEN [cl EXCEPT ![registers(index)] = value]
    ELSE IF c.Mode = FIQ THEN [cl EXCEPT ![fiqRegisters(index)] = value]
    ELSE IF c.Mode = IRQ THEN [cl EXCEPT ![irqRegisters(index)] = value]
    ELSE IF c.Mode = SUPERVISOR THEN [cl EXCEPT ![irqRegisters(index)] = value]
    ELSE IF c.Mode = ABORT THEN [cl EXCEPT ![abtRegisters(index)] = value]
    ELSE IF c.Mode = UNDEFINED THEN [cl EXCEPT ![undRegisters(index)] = value]
    ELSE [cl EXCEPT ![registers(index)] = value]

\* void setRegister(uint8_t index, uint32_t value): the cells afterwards
setRegister(c, cl, index, value) ==
    IF c.Mode = USER THEN [cl EXCEPT ![registers(index)] = value]
    ELSE IF c.Mode = FIQ THEN [cl EXCEPT ![fiqRegisters(index)] = value]
    ELSE IF c.Mode = IRQ THEN [cl EXCEPT ![irqRegisters(index)] = value]
    ELSE IF c.Mode = SUPERVISOR THEN [cl EXCEPT ![svcRegisters(index)] = value]
    ELSE IF c.Mode = ABORT THEN [cl EXCEPT ![abtRegisters(index)] = value]
    ELSE IF c.Mode = UNDEFINED THEN [cl EXCEPT ![undRegisters(index)] = value]
    ELSE [cl EXCEPT ![registers(index)] = value]

\* ProgramStatusRegister getModeSpsr(), reading cpsr c
getModeSpsr(c) ==
    IF c.Mode = USER THEN c
    ELSE IF c.Mode = FIQ THEN spsr["SPSR_fiq"]
    ELSE IF c.Mode = IRQ THEN spsr["SPSR_irq"]
    ELSE IF c.Mode = SUPERVISOR THEN spsr["SPSR_svc"]
    ELSE IF c.Mode = ABORT THEN spsr["SPSR_abt"]
    ELSE IF c.Mode = UNDEFINED THEN spsr["SPSR_und"]
    ELSE c

(***************************************************************************)
(* Observation of the run: which logical slots are banked, and the record  *)
(* of the last operation.                                                  *)
(***************************************************************************)
BankedSlots ==
    {<<m, i>> : m \in {FIQ, IRQ, SUPERVISOR, ABORT, UNDEFINED}, i \in {13, 14}}
    \cup {<<FIQ, i>> : i \in 8..12}

\* lastWrite after a write of value through index in the mode of c
NoteWrite(lw, c, index, value) ==
    IF <<c.Mode, index>> \in BankedSlots
    THEN [lw EXCEPT ![<<c.Mode, index>>] = value]
    ELSE lw

NoLast ==
    [op |-> "construct", index |-> PC_REGISTER, value |-> Zero32,
     instr |-> Zero32, rnVal |-> Zero32, op2 |-> Zero32, shiftCarry |-> 0,
     cond |-> 0, holds |-> FALSE]

(***************************************************************************)
(* ARM7TDMI::ARM7TDMI(): cpsr.Mode = SUPERVISOR, cpsr.T = 0,               *)
(* setRegister(PC_REGISTER, BOOT_LOCATION).  The build is any of the       *)
(* builds the sources admit.                                               *)
(***************************************************************************)
StateWith(psr, cl) ==
    /\ cpsr = psr
    /\ cells = cl
    /\ spsr = [n \in SpsrNames |-> PsrZero]
    /\ overflowBit = 0
    /\ carryBit = 0
    /\ zeroBit = 0
    /\ signBit = 0
    /\ aborted = FALSE
    /\ last = NoLast
    /\ lastWrite = [s \in BankedSlots |->
                        IF s = <<FIQ, 8>> THEN WordOf(69) ELSE Zero32]
    /\ nSets = 0
    /\ nExecs = 0
    /\ ndebug \in BOOLEAN
    /\ ubShift \in {"mask", "saturate"}

CpsrConstructed == [PsrZero EXCEPT !.Mode = SUPERVISOR, !.T = 0]

Constructed ==
    StateWith(CpsrConstructed,
              setRegister(CpsrConstructed, CellsInit, PC_REGISTER,
                          WordOf(BOOT_LOCATION)))

Init == Constructed

(***************************************************************************)
(* Inputs of the register-bank operations.                                 *)
(***************************************************************************)
Word7FFFFFFF == 0..30
Word80000000 == {31}
WordFFFFFFFF == 0..31

BankIndexes == {0, 8, 13, 14}
BankValues == {WordOf(1), WordOf(5)}

(***************************************************************************)
(* setRegister(index, value), called on its own                            *)
(***************************************************************************)
SetRegister(index, value) ==
    /\ ~aborted
    /\ cells' = setRegister(cpsr, cells, index, value)
    /\ lastWrite' = NoteWrite(lastWrite, cpsr, index, value)
    /\ last' = [NoLast EXCEPT !.op = "setRegister", !.index = index,
                              !.value = value]
    /\ nSets' = nSets + 1
    /\ UNCHANGED <<cpsr, spsr, overflowBit, carryBit, zeroBit, signBit,
                   aborted, ndebug, ubShift, nExecs>>

(***************************************************************************)
(* switchToMode(mode): the mode field of cpsr selects the bank that        *)
(* getRegister and setRegister go through.                                 *)
(***************************************************************************)
switchToMode(c, mode) == [c EXCEPT !.Mode = mode]

SwitchToMode(mode) ==
    /\ ~aborted
    /\ cpsr' = switchToMode(cpsr, mode)
    /\ last' = [NoLast EXCEPT !.op = "switchToMode"]
    /\ nSets' = nSets + 1
    /\ UNCHANGED <<cells, spsr, overflowBit, carryBit, zeroBit, signBit,
                   aborted, ndebug, ubShift, lastWrite, nExecs>>

NextBank ==
    /\ nSets < MaxBankOps
    /\ \/ \E index \in BankIndexes, value \in BankValues :
             SetRegister(index, value)
       \/ \E mode \in ValidModes : SwitchToMode(mode)

SpecBank == Init /\ [][NextBank]_vars

(***************************************************************************)
(* C8: banked storage is distinct per mode.  In every state, reading a     *)
(* banked slot (R13/R14 of FIQ, IRQ, Supervisor, Abort, Undefined; R8-R12  *)
(* of FIQ) in its mode returns the value last written through that slot in *)
(* that mode, whatever was written to the same index in other modes; and a *)
(* setRegister call changes exactly the one cell that getRegister reads    *)
(* back for that index in the active mode, and no other cell.              *)
(***************************************************************************)
ReadsLastWritten ==
    \A s \in BankedSlots :
        getRegister([cpsr EXCEPT !.Mode = s[1]], cells, s[2]) = lastWrite[s]

C8_BankingDistinct ==
    [][ /\ ReadsLastWritten'
        /\ last'.op = "setRegister" =>
              /\ getRegister(cpsr', cells', last'.index) = last'.value
              /\ Cardinality({c \in AllCells : cells'[c] # cells[c]}) <= 1
              /\ \A c \in AllCells :
                    cells'[c] # cells[c] => cells'[c] = last'.value ]_vars

\* register 13 was written in IRQ mode with a value other than the one
\* Supervisor's register 13 holds, and the processor is back in Supervisor
C8_Witness ==
    /\ cpsr.Mode = SUPERVISOR
    /\ lastWrite[<<IRQ, 13>>] = WordOf(5)
    /\ lastWrite[<<SUPERVISOR, 13>>] = WordOf(1)
    /\ last.op = "switchToMode"

(***************************************************************************)
(* enum Condition and bool conditionalHolds(uint8_t cond): the condition   *)
(* field of an instruction against the N, Z, C, V flags of cpsr.           *)
(***************************************************************************)
EQ == 0
NE == 1
CS == 2
CC == 3
MI == 4
PL == 5
VS == 6
VC == 7
HI == 8
LS == 9
GE == 10
LT == 11
GT == 12
LE == 13
AL == 14
NV == 15

\* a plausible slip: GE and LT compare N with Z instead of with V
conditionalHoldsSignedAgainstZ(c, cond) ==
    CASE cond = EQ -> c.Z = 1
      [] cond = NE -> c.Z = 0
      [] cond = CS -> c.C = 1
      [] cond = CC -> c.C = 0
      [] cond = MI -> c.N = 1
      [] cond = PL -> c.N = 0
      [] cond = VS -> c.V = 1
      [] cond = VC -> c.V = 0
      [] cond = HI -> c.C = 1 /\ c.Z = 0
      [] cond = LS -> c.C = 0 \/ c.Z = 1
      [] cond = GE -> c.N = c.Z
      [] cond = LT -> c.N # c.Z
      [] cond = GT -> c.Z = 0 /\ c.N = c.V
      [] cond = LE -> c.Z = 1 \/ c.N # c.V
      [] cond = AL -> TRUE
      [] OTHER -> FALSE

conditionalHolds(c, cond) ==
    CASE cond = EQ -> c.Z = 1
      [] cond = NE -> c.Z = 0
      [] cond = CS -> c.C = 1
      [] cond = CC -> c.C = 0
      [] cond = MI -> c.N = 1
      [] cond = PL -> c.N = 0
      [] cond = VS -> c.V = 1
      [] cond = VC -> c.V = 0
      [] cond = HI -> c.C = 1 /\ c.Z = 0
      [] cond = LS -> c.C = 0 \/ c.Z = 1
      [] cond = GE -> c.N = c.V
      [] cond = LT -> c.N # c.V
      [] cond = GT -> c.Z = 0 /\ c.N = c.V
      [] cond = LE -> c.Z = 1 \/ c.N # c.V
      [] cond = AL -> TRUE
      [] OTHER -> FALSE

ConditionalHolds(cond) ==
    /\ ~aborted
    /\ last' = [NoLast EXCEPT !.op = "conditionalHolds", !.cond = cond,
                              !.holds = conditionalHolds(cpsr, cond)]
    /\ UNCHANGED <<cells, cpsr, spsr, overflowBit, carryBit, zeroBit, signBit,
                   aborted, ndebug, ubShift, lastWrite, nSets, nExecs>>

\* the evaluator is a function of its inputs: they are drawn from every
\* combination of the four flags
InitCond ==
    \E n \in {0, 1}, z \in {0, 1}, c \in {0, 1}, v \in {0, 1} :
        StateWith([CpsrConstructed EXCEPT !.N = n, !.Z = z, !.C = c, !.V = v],
                  CellsInit)

NextCond == \E cond \in 0..15 : ConditionalHolds(cond)

SpecCond ==
    /\ InitCond
    /\ [][NextCond]_vars

(***************************************************************************)
(* C7: the condition evaluator is a pure function of the condition code    *)
(* and the flags: after every evaluation the answer is the one of the      *)
(* truth table (EQ Z=1, NE Z=0, CS C=1, CC C=0, MI N=1, PL N=0, VS V=1,    *)
(* VC V=0, HI C=1 and Z=0, LS C=0 or Z=1, GE N=V, LT N<>V, GT Z=0 and N=V, *)
(* LE Z=1 or N<>V, AL always, NV never), and the evaluation changes        *)
(* neither the flags nor any other part of the processor.                  *)
(***************************************************************************)
TruthTable(cond, n, z, c, v) ==
    <<z = 1, z = 0, c = 1, c = 0, n = 1, n = 0, v = 1, v = 0,
      c = 1 /\ z = 0, c = 0 \/ z = 1, n = v, n # v,
      z = 0 /\ n = v, z = 1 \/ n # v, TRUE, FALSE>>[cond + 1]

C7_ConditionTable ==
    [][ last'.op = "conditionalHolds" =>
          /\ last'.holds = TruthTable(last'.cond, cpsr.N, cpsr.Z, cpsr.C, cpsr.V)
          /\ UNCHANGED <<cells, cpsr, spsr, overflowBit, carryBit, zeroBit,
                         signBit>> ]_vars

\* GE was evaluated with Z=1, N=0, C=1, V=0 and holds
C7_Witness ==
    /\ last.op = "conditionalHolds"
    /\ last.cond = 10
    /\ last.holds
    /\ cpsr.Z = 1 /\ cpsr.N = 0 /\ cpsr.C = 1 /\ cpsr.V = 0

(***************************************************************************)
(* The barrel shifter helpers.  A shift of a 32-bit value by a count       *)
(* outside 0..31 is undefined in C++: the build either masks the count to  *)
(* its low five bits (ub = "mask") or shifts everything out                *)
(* (ub = "saturate").  The count n is the C++ count, taken modulo 2^32     *)
(* when negative here.                                                     *)
(***************************************************************************)
ShlUB(w, n, ub) ==
    IF n \in 0..31 THEN Shl32(w, n)
    ELSE IF ub = "mask" THEN Shl32(w, n % 32) ELSE Zero32

ShrUB(w, n, ub) ==
    IF n \in 0..31 THEN Shr32(w, n)
    ELSE IF ub = "mask" THEN Shr32(w, n % 32) ELSE Zero32

\* ((int32_t)value) >> n for n in 0..31: bit 31 refills the top
Asr32(w, n) ==
    Shr32(w, n) \cup (IF 31 \in w THEN (32 - n)..31 ELSE {})

\* uint32_t aluShiftLsl(uint32_t value, uint8_t shift)
aluShiftLsl(value, shift, ub) == ShlUB(value, shift, ub)

\* uint32_t aluShiftLsr(uint32_t value, uint8_t shift)
aluShiftLsr(value, shift, ub) == ShrUB(value, shift, ub)

\* uint32_t aluShiftAsr(uint32_t value, uint8_t shift)
aluShiftAsr(value, shift, ub) ==
    IF shift \in 0..31 THEN Asr32(value, shift)
    ELSE IF ub = "mask" THEN Asr32(value, shift % 32)
    ELSE IF 31 \in value THEN Bits32 ELSE Zero32

\* uint32_t aluShiftRor(uint32_t value, uint8_t shift), shift < 32:
\* (value >> shift) | (value << (-shift & 31U))
aluShiftRor(value, shift) ==
    Or32(Shr32(value, shift), Shl32(value, (32 - shift) % 32))

(***************************************************************************)
(* AluShiftResult aluShift(uint32_t instruction, bool i, bool r), reading  *)
(* cpsr c, cells cl and the member carryBit cb.  The result is the record  *)
(* of op2, the returned carry, the member carryBit afterwards, and whether *)
(* assert(rsIndex != 15) failed.                                           *)
(***************************************************************************)
aluShiftImmediate(instruction, cb) ==
    LET rm == And32(instruction, 0..7)               \* instruction & 0xFF
        is == Field(instruction, 8, 4) * 2           \* (instr & 0xF00) >> 7
        op2 == aluShiftRor(rm, is % 32)
        \* carryBit = (rm >> (is - 1)), kept in a uint8_t
        newCb == IF is > 0 THEN Field(Shr32(rm, is - 1), 0, 8) ELSE cb
    IN  [op2 |-> op2, carry |-> newCb, carryBit |-> newCb, asserted |-> FALSE]

aluShiftRegister(instruction, i, r, c, cl, cb, nd, ub) ==
    LET shiftType == Field(instruction, 5, 2)        \* (instr & 0x60) >> 5
        rmIndex == Field(instruction, 0, 4)          \* instr & 0xF
        rm0 == getRegister(c, cl, rmIndex)
        rm == IF rmIndex # PC_REGISTER THEN rm0
              ELSE IF ~i /\ r THEN Add32(rm0, WordOf(12))
              ELSE Add32(rm0, WordOf(8))
        rsIndex == Field(instruction, 8, 4)          \* (instr & 0xF00) >> 8
        asserted == r /\ rsIndex = 15 /\ ~nd
        \* instruction & 0x00000F80 >> 7U is instruction & (0xF80 >> 7),
        \* that is instruction & 0x1F
        shiftAmount == IF r THEN Field(getRegister(c, cl, rsIndex), 0, 8)
                       ELSE Field(instruction, 0, 5)
        immOpIsZero == IF r THEN FALSE ELSE shiftAmount = 0
        res ==
            IF shiftType = 0 THEN
                IF ~immOpIsZero
                THEN [op2 |-> aluShiftLsl(rm, shiftAmount, ub),
                      cb |-> Bit(ShrUB(rm, 32 - shiftAmount, ub), 0)]
                ELSE [op2 |-> rm, cb |-> c.C]
            ELSE IF shiftType = 1 THEN
                IF ~immOpIsZero
                THEN [op2 |-> aluShiftLsr(rm, shiftAmount, ub),
                      cb |-> Bit(ShrUB(rm, shiftAmount - 1, ub), 0)]
                ELSE [op2 |-> Zero32, cb |-> Bit(rm, 31)]
            ELSE IF shiftType = 2 THEN
                IF ~immOpIsZero
                THEN [op2 |-> aluShiftAsr(rm, shiftAmount, ub),
                      cb |-> Bit(rm, 31)]
                ELSE [op2 |-> aluShiftAsr(rm, 32, ub), cb |-> Bit(rm, 31)]
            ELSE
                IF ~immOpIsZero
                THEN [op2 |-> aluShiftRor(rm, shiftAmount % 32),
                      cb |-> Bit(ShrUB(rm, shiftAmount - 1, ub), 0)]
                ELSE [op2 |-> Or32(Shr32(rm, 1), IF c.C = 1 THEN {31} ELSE {}),
                      cb |-> Bit(rm, 0)]
    IN  IF asserted
        THEN [op2 |-> Zero32, carry |-> cb, carryBit |-> cb, asserted |-> TRUE]
        ELSE [op2 |-> res.op2, carry |-> res.cb, carryBit |-> res.cb,
              asserted |-> FALSE]

aluShift(instruction, i, r, c, cl, cb, nd, ub) ==
    IF i THEN aluShiftImmediate(instruction, cb)
    ELSE aluShiftRegister(instruction, i, r, c, cl, cb, nd, ub)

(***************************************************************************)
(* The flag helpers; a bool is 1 or 0.                                     *)
(***************************************************************************)
B(p) == IF p THEN 1 ELSE 0

aluSetsZeroBit(value) == B(value = Zero32)

aluSetsSignBit(value) == Bit(value, 31)

aluSubtractSetsCarryBit(rnValue, op2) == B(~ULess(rnValue, op2))

aluSubtractSetsOverflowBit(rnValue, op2, result) ==
    B(\/ 31 \notin rnValue /\ 31 \in op2 /\ 31 \in result
      \/ 31 \in rnValue /\ 31 \notin op2 /\ 31 \notin result)

\* (0xFFFFFFFF - op2) < rnValue
aluAddSetsCarryBit(rnValue, op2) == B(ULess(Not32(op2), rnValue))

aluAddSetsOverflowBit(rnValue, op2, result) ==
    B(\/ 31 \in rnValue /\ 31 \in op2 /\ 31 \notin result
      \/ 31 \notin rnValue /\ 31 \notin op2 /\ 31 \in result)

\* result >> 32 of a uint64_t
aluAddWithCarrySetsCarryBit(result) == B(result \ Bits32 # {})

\* cpsr.C & 0x80000000 is 0 whatever the carry flag is
aluAddWithCarrySetsOverflowBit(rnValue, op2, result) ==
    LET sum == Add32(rnValue, op2)
    IN  B(\/ 31 \in rnValue /\ 31 \in op2 /\ 31 \notin sum
          \/ 31 \notin rnValue /\ 31 \notin op2 /\ 31 \in sum
          \/ 31 \notin sum /\ 31 \in result)

aluSubWithCarrySetsCarryBit(result) == B(result \ Bits32 = {})

aluSubWithCarrySetsOverflowBit(rnValue, op2, result) ==
    LET sum == Add32(rnValue, Not32(op2))
    IN  B(\/ 31 \in rnValue /\ 31 \in Not32(op2) /\ 31 \notin sum
          \/ 31 \notin rnValue /\ 31 \notin Not32(op2) /\ 31 \in sum
          \/ 31 \notin sum /\ 31 \in result)

(***************************************************************************)
(* enum AluOpcode                                                          *)
(***************************************************************************)
AND == 0
EOR == 1
SUB == 2
RSB == 3
ADD == 4
ADC == 5
SBC == 6
RSC == 7
TST == 8
TEQ == 9
CMP == 10
CMN == 11
ORR == 12
MOV == 13
BIC == 14
MVN == 15

(***************************************************************************)
(* executeAluInstructionOperation(opcode, rd, rnVal, op2).  st is the      *)
(* record of what the switch writes: cells, lastWrite, zeroBit, signBit,   *)
(* carryBit, overflowBit; c is cpsr, which it only reads.                  *)
(***************************************************************************)
WriteRd(st, c, rd, result) ==
    [st EXCEPT !.cells = setRegister(c, st.cells, rd, result),
               !.lastWrite = NoteWrite(st.lastWrite, c, rd, result)]

SetZS(st, result) ==
    [st EXCEPT !.zeroBit = aluSetsZeroBit(result),
               !.signBit = aluSetsSignBit(result)]

SetCV(st, carry, overflow) ==
    [st EXCEPT !.carryBit = carry, !.overflowBit = overflow]

\* what a case does with its result.  Each result is bound through a
\* one-element set, so that it is computed once.
TheOne(S) == CHOOSE x \in S : TRUE

Logical(st, c, rd, results) ==
    TheOne({SetZS(WriteRd(st, c, rd, result), result) : result \in results})

Arithmetic(st, c, rd, results, carry, overflow) ==
    TheOne({SetCV(SetZS(WriteRd(st, c, rd, result), result), carry, overflow) :
               result \in results})

Test(st, results) ==
    TheOne({SetZS(st, result) : result \in results})

Compare(st, results, carry, overflow) ==
    TheOne({SetCV(SetZS(st, result), carry, overflow) : result \in results})

\* the body of one case label of the switch
AluCase(k, st, c, rd, rnVal, op2) ==
    CASE k = AND -> Logical(st, c, rd, {And32(rnVal, op2)})
      [] k = EOR -> Logical(st, c, rd, {Xor32(rnVal, op2)})
      [] k = SUB ->
            TheOne({Arithmetic(st, c, rd, {result},
                        aluSubtractSetsCarryBit(rnVal, op2),
                        aluSubtractSetsOverflowBit(rnVal, op2, result)) :
                    result \in {Sub32(rnVal, op2)}})
      [] k = RSB ->
            TheOne({Arithmetic(st, c, rd, {result},
                        aluSubtractSetsCarryBit(op2, rnVal),
                        aluSubtractSetsOverflowBit(op2, rnVal, result)) :
                    result \in {Sub32(op2, rnVal)}})
      [] k = ADD ->
            TheOne({Arithmetic(st, c, rd, {result},
                        aluAddSetsCarryBit(rnVal, op2),
                        aluAddSetsOverflowBit(rnVal, op2, result)) :
                    result \in {Add32(rnVal, op2)}})
      \* (uint64_t)(rnVal + op2 + cpsr.C): the sum is a uint32_t sum,
      \* widened after it has wrapped
      [] k = ADC ->
            TheOne({Arithmetic(st, c, rd, {Trunc32(result)},
                        aluAddWithCarrySetsCarryBit(result),
                        aluAddWithCarrySetsOverflowBit(rnVal, op2,
                                                       Trunc32(result))) :
                    result \in {Trunc32(AddWide(rnVal, op2, c.C))}})
      \* uint64_t result = rnVal + (~op2) + cpsr.C: a uint32_t sum again
      [] k = SBC ->
            TheOne({Arithmetic(st, c, rd, {Trunc32(result)},
                        aluSubWithCarrySetsCarryBit(result),
                        aluSubWithCarrySetsOverflowBit(rnVal, op2,
                                                       Trunc32(result))) :
                    result \in {Trunc32(AddWide(rnVal, Not32(op2), c.C))}})
      [] k = RSC ->
            TheOne({Arithmetic(st, c, rd, {Trunc32(result)},
                        aluSubWithCarrySetsCarryBit(result),
                        aluSubWithCarrySetsOverflowBit(op2, rnVal,
                                                       Trunc32(result))) :
                    result \in {Trunc32(AddWide(op2, Not32(rnVal), c.C))}})
      [] k = TST -> Test(st, {And32(rnVal, op2)})
      [] k = TEQ -> Test(st, {Xor32(rnVal, op2)})
      [] k = CMP ->
            TheOne({Compare(st, {result},
                        aluSubtractSetsCarryBit(rnVal, op2),
                        aluSubtractSetsOverflowBit(rnVal, op2, result)) :
                    result \in {Sub32(rnVal, op2)}})
      [] k = CMN ->
            TheOne({Compare(st, {result},
                        aluAddSetsCarryBit(rnVal, op2),
                        aluAddSetsOverflowBit(rnVal, op2, result)) :
                    result \in {Add32(rnVal, op2)}})
      [] k = ORR -> Logical(st, c, rd, {Or32(rnVal, op2)})
      [] k = MOV -> Logical(st, c, rd, {op2})
      [] k = BIC -> Logical(st, c, rd, {And32(rnVal, Not32(op2))})
      [] k = MVN -> Logical(st, c, rd, {Not32(op2)})

\* no case of the switch ends in a break: control enters at the label of
\* opcode and runs every case below it, down to MVN
RECURSIVE AluCasesFrom(_, _, _, _, _, _)
AluCasesFrom(k, st, c, rd, rnVal, op2) ==
    IF k > MVN THEN st
    ELSE LET after == {AluCase(k, v, c, rd, rnVal, op2) : v \in {st}}
         IN  CHOOSE end \in {AluCasesFrom(k + 1, w, c, rd, rnVal, op2) :
                                w \in after} : TRUE

executeAluInstructionOperation(opcode, rd, rnVal, op2, st, c) ==
    TheOne({AluCasesFrom(opcode, st, c, rd, a, b) :
               a \in {rnVal}, b \in {op2}})

(***************************************************************************)
(* Cycles executeAluInstruction(uint32_t instruction): the state it leaves *)
(* behind, as a record of every member it can write.                       *)
(***************************************************************************)
\* a variant of the flag update that writes the computed flags whatever the
\* destination is, and never restores the saved status
AluFlagsWhateverRd(instruction, rd, st) ==
    IF 20 \in instruction
    THEN [cpsr EXCEPT !.C = st.carryBit % 2,
                      !.Z = st.overflowBit % 2,
                      !.N = st.signBit % 2,
                      !.V = st.overflowBit % 2]
    ELSE cpsr

\* a variant of the flag update that does not look at the S bit when the
\* destination is not R15
AluFlagsWhateverS(instruction, rd, st) ==
    IF rd # PC_REGISTER
    THEN [cpsr EXCEPT !.C = st.carryBit % 2,
                      !.Z = st.overflowBit % 2,
                      !.N = st.signBit % 2,
                      !.V = st.overflowBit % 2]
    ELSE IF 20 \in instruction THEN getModeSpsr(cpsr)
    ELSE cpsr

\* the end of executeAluInstruction: the flags, from the members st that
\* executeAluInstructionOperation left
AluFlags(instruction, rd, st) ==
    LET s == 20 \in instruction                  \* instruction & 0x00100000
    IN  IF rd # PC_REGISTER /\ s
        THEN [cpsr EXCEPT !.C = st.carryBit % 2,
                          !.Z = st.overflowBit % 2,
                          !.N = st.signBit % 2,
                          !.V = st.overflowBit % 2]
        ELSE IF rd = PC_REGISTER /\ s THEN getModeSpsr(cpsr)
        ELSE cpsr

\* executeAluInstruction after aluShift has returned shiftResult
AluAfterShift(instruction, shiftResult) ==
    LET i == 25 \in instruction                  \* instruction & 0x02000000
        r == 4 \in instruction                   \* instruction & 0x00000010
        rd == Field(instruction, 12, 4)          \* (instr & 0xF000) >> 12
        rn == Field(instruction, 16, 4)          \* (instr & 0xF0000) >> 16
        \* instruction & 0x01E00000 >> 21 is instruction & (0x01E00000 >> 21),
        \* that is instruction & 0xF
        opcode == Field(instruction, 0, 4)
        \* rnValue is computed and then not used: the call passes
        \* getRegister(rn)
        rnValue == IF rn # PC_REGISTER THEN getRegister(cpsr, cells, rn)
                   ELSE IF ~i /\ r
                        THEN Add32(getRegister(cpsr, cells, rn), WordOf(12))
                        ELSE Add32(getRegister(cpsr, cells, rn), WordOf(8))
        st0 == [cells |-> cells, lastWrite |-> lastWrite,
                zeroBit |-> zeroBit, signBit |-> signBit,
                carryBit |-> shiftResult.carryBit, overflowBit |-> overflowBit]
    IN  TheOne({[aborted |-> FALSE, cells |-> st.cells,
                 lastWrite |-> st.lastWrite,
                 cpsr |-> AluFlags(instruction, rd, st),
                 zeroBit |-> st.zeroBit, signBit |-> st.signBit,
                 carryBit |-> st.carryBit, overflowBit |-> st.overflowBit,
                 rnVal |-> getRegister(cpsr, cells, rn),
                 op2 |-> shiftResult.op2,
                 shiftCarry |-> shiftResult.carry] :
                st \in {executeAluInstructionOperation(
                            opcode, rd, getRegister(cpsr, cells, rn),
                            shiftResult.op2, st0, cpsr)}})

AluEffect(instruction) ==
    TheOne({IF shiftResult.asserted
            THEN [aborted |-> TRUE, cells |-> cells, lastWrite |-> lastWrite,
                  cpsr |-> cpsr, zeroBit |-> zeroBit, signBit |-> signBit,
                  carryBit |-> carryBit, overflowBit |-> overflowBit,
                  rnVal |-> Zero32, op2 |-> Zero32, shiftCarry |-> carryBit]
            ELSE AluAfterShift(instruction, shiftResult) :
            shiftResult \in {aluShift(instruction, 25 \in instruction,
                                     4 \in instruction, cpsr, cells, carryBit,
                                     ndebug, ubShift)}})

ExecuteAluInstruction(instruction) ==
    /\ ~aborted
    /\ \E e \in {AluEffect(instruction)} :
           /\ cells' = e.cells
           /\ lastWrite' = e.lastWrite
           /\ cpsr' = e.cpsr
           /\ zeroBit' = e.zeroBit
           /\ signBit' = e.signBit
           /\ carryBit' = e.carryBit
           /\ overflowBit' = e.overflowBit
           /\ aborted' = e.aborted
           /\ last' = [NoLast EXCEPT !.op = "executeAluInstruction",
                                     !.instr = instruction,
                                     !.rnVal = e.rnVal, !.op2 = e.op2,
                                     !.shiftCarry = e.shiftCarry]
    /\ nExecs' = nExecs + 1
    /\ UNCHANGED <<spsr, ndebug, ubShift, nSets>>

(***************************************************************************)
(* void step(): the word at registers[PC_REGISTER] is read from the bus    *)
(* (any word: the memory is not part of the core); with cpsr.T set         *)
(* executeInstruction is called, whose switch only breaks; with cpsr.T     *)
(* clear the branch is empty.                                              *)
(***************************************************************************)
executeInstruction(rawInstruction) ==
    UNCHANGED <<cells, cpsr, spsr, overflowBit, carryBit, zeroBit, signBit,
                aborted, lastWrite>>

Step(rawInstruction) ==
    /\ ~aborted
    /\ IF cpsr.T = 1
       THEN executeInstruction(rawInstruction)
       ELSE UNCHANGED <<cells, cpsr, spsr, overflowBit, carryBit, zeroBit,
                        signBit, aborted, lastWrite>>
    /\ last' = [NoLast EXCEPT !.op = "step", !.instr = rawInstruction]
    /\ nExecs' = nExecs + 1
    /\ UNCHANGED <<ndebug, ubShift, nSets>>

(***************************************************************************)
(* Instruction words (ARM Binary Opcode Format, DataProc rows), condition  *)
(* field AL.                                                               *)
(***************************************************************************)
Bits(value, lo) == {lo + k : k \in WordOf(value)}

DataProc(op, s, rn, rd) ==
    Bits(AL, 28) \cup Bits(op, 21) \cup Bits(s, 20) \cup Bits(rn, 16)
    \cup Bits(rd, 12)

\* |Cond|001|Op|S|Rn|Rd|Shift|Immediate|
DataProcImm(op, s, rn, rd, rot, imm) ==
    DataProc(op, s, rn, rd) \cup {25} \cup Bits(rot, 8) \cup Bits(imm, 0)

\* |Cond|000|Op|S|Rn|Rd|Shift|Typ|0|Rm|
DataProcRegImm(op, s, rn, rd, amount, typ, rm) ==
    DataProc(op, s, rn, rd) \cup Bits(amount, 7) \cup Bits(typ, 5)
    \cup Bits(rm, 0)

\* |Cond|000|Op|S|Rn|Rd|Rs|0|Typ|1|Rm|
DataProcRegReg(op, s, rn, rd, rs, typ, rm) ==
    DataProc(op, s, rn, rd) \cup Bits(rs, 8) \cup Bits(typ, 5) \cup {4}
    \cup Bits(rm, 0)

Instructions ==
    {DataProcImm(op, s, 1, 0, 0, 1) : op \in 0..15, s \in {0, 1}}
    \cup {DataProcImm(op, 1, 1, 0, 0, 13) : op \in {AND, MOV}}
    \cup {DataProcImm(CMP, 1, 1, 0, 0, 5)}
    \cup {DataProcImm(op, s, 1, 15, 0, 1) : op \in {ADD, MOV}, s \in {0, 1}}
    \cup {DataProcRegImm(op, 1, 1, 0, 0, typ, rm) :
            op \in {ADD, MOV}, typ \in 0..3, rm \in {0, 2}}
    \cup {DataProcRegReg(MOV, 1, 1, 0, rs, typ, 2) :
            rs \in {1, 15}, typ \in 0..3}
    \cup {DataProcImm(MOV, 1, 1, 0, rot, 255) : rot \in {1, 15}}

FetchedWords ==
    {DataProcImm(MOV, 0, 0, 0, 0, 1), DataProcImm(ADD, 1, 1, 0, 0, 1)}

AluIndexes == {0, 1, 2}
AluValues == {WordOf(1), WordOf(5), Word7FFFFFFF}
AluModes == {USER, IRQ, SYSTEM}

Next ==
    \/ /\ nSets < MaxSets
       /\ \E index \in AluIndexes, value \in AluValues :
             SetRegister(index, value)
    \/ /\ nSets < MaxSets
       /\ \E mode \in AluModes : SwitchToMode(mode)
    \/ /\ nExecs < MaxExecs
       /\ \E instruction \in Instructions : ExecuteAluInstruction(instruction)
    \/ /\ nExecs < MaxExecs
       /\ \E rawInstruction \in FetchedWords : Step(rawInstruction)

Spec == Init /\ [][Next]_vars

(***************************************************************************)
(* The data-processing claims, read off the record of the last operation.  *)
(* The instruction's fields are taken where the ARM encoding puts them:    *)
(* opcode in bits 24..21, S in bit 20, Rd in bits 15..12, I in bit 25.     *)
(***************************************************************************)
Executed == last.op = "executeAluInstruction" /\ ~aborted

OpcodeField(instruction) == Field(instruction, 21, 4)

RdField(instruction) == Field(instruction, 12, 4)

SetsFlags(instruction) == 20 \in instruction

(***************************************************************************)
(* C1: after an ADD executed through the data-processing path with flag    *)
(* update requested and a destination other than R15, on operands a (the   *)
(* value of Rn) and b (operand 2), the flags of cpsr are C = 1 iff         *)
(* a + b >= 2^32, V = 1 iff the signed sum leaves [-2^31, 2^31 - 1],       *)
(* Z = 1 iff (a + b) mod 2^32 = 0, and N = bit 31 of (a + b) mod 2^32.     *)
(***************************************************************************)
C1_AddFlags ==
    (/\ Executed
     /\ OpcodeField(last.instr) = ADD
     /\ SetsFlags(last.instr)
     /\ RdField(last.instr) # PC_REGISTER)
    => LET a == last.rnVal
           b == last.op2
           wide == AddWide(a, b, 0)
           sum == Trunc32(wide)
       IN  /\ cpsr.C = B(32 \in wide)
           /\ cpsr.V = B((31 \in a) = (31 \in b) /\ (31 \in sum) # (31 \in a))
           /\ cpsr.Z = B(sum = Zero32)
           /\ cpsr.N = Bit(sum, 31)

(***************************************************************************)
(* C2: executing TST, TEQ, CMP or CMN, with any operands and destination   *)
(* field, writes no general-purpose register: every cell of every bank     *)
(* holds after the operation what it held before.                          *)
(***************************************************************************)
C2_TestsWriteNoRegister ==
    [][ (/\ last'.op = "executeAluInstruction"
         /\ OpcodeField(last'.instr) \in {TST, TEQ, CMP, CMN})
        => cells' = cells ]_vars

(***************************************************************************)
(* C3: after executeAluInstructionOperation(opcode, rd, rn, op2) with one  *)
(* of the twelve result-writing opcodes, register rd holds that opcode's   *)
(* result modulo 2^32 (AND rn&op2, EOR rn^op2, SUB rn-op2, RSB op2-rn,     *)
(* ADD rn+op2, ADC rn+op2+C, SBC rn-op2+C-1, RSC op2-rn+C-1, ORR rn|op2,   *)
(* MOV op2, BIC rn&~op2, MVN ~op2).  The opcode is the one the operation   *)
(* was called with, C the carry flag at the call.                          *)
(***************************************************************************)
OpcodeResult(opcode, rn, op2, c) ==
    CASE opcode = AND -> And32(rn, op2)
      [] opcode = EOR -> Xor32(rn, op2)
      [] opcode = SUB -> Sub32(rn, op2)
      [] opcode = RSB -> Sub32(op2, rn)
      [] opcode = ADD -> Add32(rn, op2)
      [] opcode = ADC -> Trunc32(AddWide(rn, op2, c))
      [] opcode = SBC -> Trunc32(AddWide(rn, Not32(op2), c))
      [] opcode = RSC -> Trunc32(AddWide(op2, Not32(rn), c))
      [] opcode = ORR -> Or32(rn, op2)
      [] opcode = MOV -> op2
      [] opcode = BIC -> And32(rn, Not32(op2))
      [] opcode = MVN -> Not32(op2)

\* the opcode executeAluInstruction hands to the operation
OpcodePassed(instruction) == Field(instruction, 0, 4)

C3_RdHoldsResult ==
    [][ (/\ last'.op = "executeAluInstruction"
         /\ ~aborted'
         /\ OpcodePassed(last'.instr) \notin {TST, TEQ, CMP, CMN})
        => getRegister(cpsr, cells', RdField(last'.instr))
             = OpcodeResult(OpcodePassed(last'.instr), last'.rnVal,
                            last'.op2, cpsr.C) ]_vars

(***************************************************************************)
(* C4: a logical opcode (AND, EOR, TST, TEQ, ORR, MOV, BIC, MVN) executed  *)
(* with flag update requested and a destination other than R15 leaves the  *)
(* overflow flag of cpsr as it was, and sets the carry flag to the carry   *)
(* the barrel shifter returned for that instruction.                       *)
(***************************************************************************)
LogicalOpcodes == {AND, EOR, TST, TEQ, ORR, MOV, BIC, MVN}

C4_LogicalKeepsOverflow ==
    [][ (/\ last'.op = "executeAluInstruction"
         /\ ~aborted'
         /\ OpcodeField(last'.instr) \in LogicalOpcodes
         /\ SetsFlags(last'.instr)
         /\ RdField(last'.instr) # PC_REGISTER)
        => /\ cpsr'.V = cpsr.V
           /\ cpsr'.C = last'.shiftCarry % 2 ]_vars

(***************************************************************************)
(* The shifter claims: operand 2 is a register (bit 25 clear) shifted by   *)
(* the immediate amount (bit 4 clear) of bits 11..7, of type bits 6..5; v  *)
(* is the value of Rm and c the carry flag when the instruction starts.    *)
(***************************************************************************)
ShiftByImmediateZero(instruction) ==
    /\ 25 \notin instruction
    /\ 4 \notin instruction
    /\ Field(instruction, 7, 5) = 0

ShiftTypeField(instruction) == Field(instruction, 5, 2)

RmField(instruction) == Field(instruction, 0, 4)

(***************************************************************************)
(* C5: with the immediate shift amount field 0, logical-left yields        *)
(* (v, c), logical-right yields (0, bit 31 of v), and arithmetic-right     *)
(* yields (0xFFFFFFFF if bit 31 of v is set else 0, bit 31 of v).          *)
(***************************************************************************)
C5_ShiftImmediateZero ==
    [][ (/\ last'.op = "executeAluInstruction"
         /\ ~aborted'
         /\ ShiftByImmediateZero(last'.instr)
         /\ ShiftTypeField(last'.instr) \in 0..2)
        => LET v == getRegister(cpsr, cells, RmField(last'.instr))
               typ == ShiftTypeField(last'.instr)
           IN  <<last'.op2, last'.shiftCarry>> =
                  CASE typ = 0 -> <<v, cpsr.C>>
                    [] typ = 1 -> <<Zero32, Bit(v, 31)>>
                    [] typ = 2 -> <<IF 31 \in v THEN Bits32 ELSE Zero32,
                                    Bit(v, 31)>> ]_vars

(***************************************************************************)
(* C6: with shift type rotate-right and the immediate shift amount field   *)
(* 0 the shifter rotates right extended: the result is                     *)
(* (v >> 1) | (c << 31) and the carry-out is bit 0 of v.                   *)
(***************************************************************************)
C6_RotateRightExtended ==
    [][ (/\ last'.op = "executeAluInstruction"
         /\ ~aborted'
         /\ ShiftByImmediateZero(last'.instr)
         /\ ShiftTypeField(last'.instr) = 3)
        => LET v == getRegister(cpsr, cells, RmField(last'.instr))
           IN  /\ last'.op2 = Or32(Shr32(v, 1),
                                   IF cpsr.C = 1 THEN {31} ELSE {})
               /\ last'.shiftCarry = Bit(v, 0) ]_vars

(***************************************************************************)
(* C9: in every state reachable from the constructed processor the mode    *)
(* field of cpsr is one of User(16), FIQ(17), IRQ(18), Supervisor(19),     *)
(* Abort(23), Undefined(27), System(31).                                   *)
(***************************************************************************)
C9_ModeIsValid == cpsr.Mode \in ValidModes

(***************************************************************************)
(* C10: a call of step() executes the one instruction it fetched before    *)
(* it returns: for a fetched data-processing word the registers and cpsr   *)
(* are afterwards what executing that word leaves.                         *)
(***************************************************************************)
C10_StepExecutesFetched ==
    [][ last'.op = "step"
        => \A e \in {AluEffect(last'.instr)} :
              /\ cells' = e.cells
              /\ cpsr' = e.cpsr ]_vars

(***************************************************************************)
(* Flag-setting writes to R15.  The processor is in any mode with any      *)
(* carry and overflow flags (Z is written from the same member as V, so    *)
(* the two agree), and executes data-processing instructions with          *)
(* destination R0 or R15, with and without S.                              *)
(***************************************************************************)
MaxRestoreExecs == 1

InitRestore ==
    \E mode \in ValidModes, cf \in {0, 1}, vf \in {0, 1} :
        StateWith([CpsrConstructed EXCEPT !.Mode = mode, !.C = cf, !.V = vf,
                                          !.Z = vf],
                  setRegister(CpsrConstructed, CellsInit, PC_REGISTER,
                              WordOf(BOOT_LOCATION)))

RestoreInstructions ==
    {DataProcImm(op, s, 1, rd, 0, 1) :
        op \in {ADD, MOV}, s \in {0, 1}, rd \in {0, 15}}

NextRestore ==
    /\ nExecs < MaxRestoreExecs
    /\ \E instruction \in RestoreInstructions :
          ExecuteAluInstruction(instruction)

SpecRestore == InitRestore /\ [][NextRestore]_vars

\* the saved status register of the mode of c; c itself for User and System
SavedStatusOf(c) ==
    CASE c.Mode = FIQ -> spsr["SPSR_fiq"]
      [] c.Mode = IRQ -> spsr["SPSR_irq"]
      [] c.Mode = SUPERVISOR -> spsr["SPSR_svc"]
      [] c.Mode = ABORT -> spsr["SPSR_abt"]
      [] c.Mode = UNDEFINED -> spsr["SPSR_und"]
      [] c.Mode \in {USER, SYSTEM} -> c

(***************************************************************************)
(* C11: after a data-processing instruction with flag update requested and *)
(* destination R15, the whole of cpsr equals the saved status register of  *)
(* the mode that was current before the instruction (cpsr is unchanged if  *)
(* that mode was User or System); the flags the operation computed are not *)
(* written to it.                                                          *)
(***************************************************************************)
C11_RestoresSavedStatus ==
    [][ (/\ last'.op = "executeAluInstruction"
         /\ ~aborted'
         /\ SetsFlags(last'.instr)
         /\ RdField(last'.instr) = PC_REGISTER
         /\ cpsr.Mode \in ValidModes)
        => cpsr' = SavedStatusOf(cpsr) ]_vars

\* ADDS pc, r1, #1 has run in a privileged mode: the operation left a sign
\* bit of 1, and cpsr is the saved status, with N = 0 and mode field 0
C11_Witness ==
    /\ Executed
    /\ last.instr = DataProcImm(ADD, 1, 1, 15, 0, 1)
    /\ signBit = 1
    /\ cpsr = spsr["SPSR_svc"]
    /\ cpsr.N = 0

(***************************************************************************)
(* Instructions that do not ask for a flag update.  The processor holds    *)
(* any flags an earlier flag-setting instruction can have left (Z and V    *)
(* agree) and any of a few values in R1 and R2; the instructions take      *)
(* every form of operand 2: immediate with and without rotation, register  *)
(* shifted by an immediate amount, register shifted by a register.         *)
(***************************************************************************)
MaxNoFlagExecs == 1

InitNoFlags ==
    \E nf \in {0, 1}, cf \in {0, 1}, vf \in {0, 1},
       r1 \in {WordOf(1), Word7FFFFFFF}, r2 \in {WordOf(1), WordOf(32)} :
        StateWith([CpsrConstructed EXCEPT !.N = nf, !.C = cf, !.V = vf,
                                          !.Z = vf],
                  [setRegister(CpsrConstructed, CellsInit, PC_REGISTER,
                               WordOf(BOOT_LOCATION))
                       EXCEPT !["r1"] = r1, !["r2"] = r2])

NoFlagInstructions ==
    {DataProcImm(op, 0, 1, 0, rot, 255) : op \in {ADD, MOV}, rot \in {0, 1}}
    \cup {DataProcRegImm(MOV, 0, 1, 0, 1, typ, 1) : typ \in 0..3}
    \cup {DataProcRegReg(MOV, 0, 1, 0, 2, typ, 1) : typ \in 0..3}
    \cup {DataProcImm(op, 1, 1, 0, 0, 1) : op \in {ADD, MOV}}

NextNoFlags ==
    /\ nExecs < MaxNoFlagExecs
    /\ \E instruction \in NoFlagInstructions :
          ExecuteAluInstruction(instruction)

SpecNoFlags == InitNoFlags /\ [][NextNoFlags]_vars

(***************************************************************************)
(* C12: a data-processing instruction with an opcode other than TST, TEQ,  *)
(* CMP and CMN and with the S bit clear leaves cpsr, N, Z, C and V         *)
(* included, exactly as it was, for every operand value and every form of  *)
(* operand 2.                                                              *)
(***************************************************************************)
C12_NoFlagUpdateWithoutS ==
    [][ (/\ last'.op = "executeAluInstruction"
         /\ OpcodeField(last'.instr) \notin {TST, TEQ, CMP, CMN}
         /\ ~SetsFlags(last'.instr))
        => cpsr' = cpsr ]_vars

\* MOV r0, r1, LSR r2 without S has run: the members hold a sign bit of 1
\* and a carry of 0, and cpsr still holds N = 0 and C = 1
C12_Witness ==
    /\ Executed
    /\ last.instr = DataProcRegReg(MOV, 0, 1, 0, 2, 1, 1)
    /\ signBit = 1
    /\ carryBit = 0
    /\ cpsr.N = 0
    /\ cpsr.C = 1

(***************************************************************************)
(* C13: a register-shifted operand 2 (bit 25 clear, bit 4 set) whose       *)
(* shift-amount register, bits 11..8, is R15 is rejected within the step:  *)
(* the process is not aborted, the value of R15 is not used as a shift     *)
(* amount, and no register and no status flag changes.                     *)
(***************************************************************************)
ShiftByR15(instruction) ==
    /\ 25 \notin instruction
    /\ 4 \in instruction
    /\ Field(instruction, 8, 4) = PC_REGISTER

C13_ShiftByR15Rejected ==
    [][ (/\ last'.op = "executeAluInstruction"
         /\ ShiftByR15(last'.instr))
        => /\ ~aborted'
           /\ cells' = cells
           /\ cpsr' = cpsr ]_vars

(***************************************************************************)
(* Add with carry, from every flag state a flag-setting instruction can    *)
(* leave: ADC r0, r1, #imm with and without S.                             *)
(***************************************************************************)
AdcInstructions ==
    {DataProcImm(ADC, s, 1, 0, 0, imm) : s \in {0, 1}, imm \in {0, 1}}

NextAdc ==
    /\ nExecs < MaxExecs
    /\ \E instruction \in AdcInstructions : ExecuteAluInstruction(instruction)

SpecAdc == InitNoFlags /\ [][NextAdc]_vars

(***************************************************************************)
(* C14: after an add-with-carry with flag update requested and a           *)
(* destination other than R15, on operands rn and op2 with incoming carry  *)
(* c, the carry flag is 1 iff rn + op2 + c >= 2^32 computed without        *)
(* truncation, and the overflow flag is 1 iff the signed sum of rn, op2    *)
(* and c lies outside [-2^31, 2^31 - 1] (the carry into bit 31 differs     *)
(* from the carry out of it).                                              *)
(***************************************************************************)
C14_AdcCarryAndOverflow ==
    [][ (/\ last'.op = "executeAluInstruction"
         /\ ~aborted'
         /\ OpcodeField(last'.instr) = ADC
         /\ SetsFlags(last'.instr)
         /\ RdField(last'.instr) # PC_REGISTER)
        => LET rn == last'.rnVal
               op2 == last'.op2
               wide == AddWide(rn, op2, cpsr.C)
               into31 == 31 \in AddWide(rn \ {31}, op2 \ {31}, cpsr.C)
           IN  /\ cpsr'.C = B(32 \in wide)
               /\ cpsr'.V = B(into31 # (32 \in wide)) ]_vars

(***************************************************************************)
(* C15: for the immediate form of operand 2 (bit 25 set), with the 8-bit   *)
(* value imm in bits 7..0 and the rotate field rot in bits 11..8, the      *)
(* value is imm rotated right by 2 * rot within 32 bits, and the carry-out *)
(* is one bit: bit 31 of the rotated value when rot > 0, and the carry     *)
(* flag of cpsr when rot = 0, whatever ran before.                         *)
(***************************************************************************)
RotatedImmediate(instruction) ==
    LET imm == instruction \cap (0..7)
        rot == Field(instruction, 8, 4)
    IN  {(i + 32 - 2 * rot) % 32 : i \in imm}

C15_ImmediateOperand ==
    [][ (/\ last'.op = "executeAluInstruction"
         /\ ~aborted'
         /\ 25 \in last'.instr)
        => /\ last'.op2 = RotatedImmediate(last'.instr)
           /\ last'.shiftCarry =
                 IF Field(last'.instr, 8, 4) > 0
                 THEN Bit(RotatedImmediate(last'.instr), 31)
                 ELSE cpsr.C ]_vars

(***************************************************************************)
(* The shift amount a register-form operand 2 asks for, in the state the   *)
(* instruction starts in: the low 8 bits of Rs (bits 11..8) when bit 4 is  *)
(* set, the immediate field of bits 11..7 otherwise.                       *)
(***************************************************************************)
RsField(instruction) == Field(instruction, 8, 4)

ShiftAmountAsked(instruction, c, cl) ==
    IF 4 \in instruction
    THEN Field(getRegister(c, cl, RsField(instruction)), 0, 8)
    ELSE Field(instruction, 7, 5)

(***************************************************************************)
(* C16: for a register-form operand 2 with shift amount n in 1..31, from   *)
(* the immediate field or from a register, the carry-out is the last bit   *)
(* shifted out of the value v of Rm: bit (32 - n) of v for logical-left,   *)
(* bit (n - 1) of v for logical-right, arithmetic-right and rotate-right.  *)
(***************************************************************************)
C16_CarryIsLastBitOut ==
    [][ (/\ last'.op = "executeAluInstruction"
         /\ ~aborted'
         /\ 25 \notin last'.instr
         /\ RmField(last'.instr) # PC_REGISTER
         /\ ShiftAmountAsked(last'.instr, cpsr, cells) \in 1..31)
        => LET v == getRegister(cpsr, cells, RmField(last'.instr))
               n == ShiftAmountAsked(last'.instr, cpsr, cells)
           IN  last'.shiftCarry =
                  IF ShiftTypeField(last'.instr) = 0
                  THEN Bit(v, 32 - n)
                  ELSE Bit(v, n - 1) ]_vars

(***************************************************************************)
(* Shifts by a register that holds 0: MOV r0, r1, <type> r3, with and      *)
(* without S, from every flag state a flag-setting instruction can leave.  *)
(***************************************************************************)
ShiftByZeroInstructions ==
    {DataProcRegReg(MOV, s, 1, 0, 3, typ, 1) : s \in {0, 1}, typ \in 0..3}

NextShiftByZero ==
    /\ nExecs < MaxExecs
    /\ \E instruction \in ShiftByZeroInstructions :
          ExecuteAluInstruction(instruction)

SpecShiftByZero == InitNoFlags /\ [][NextShiftByZero]_vars

(***************************************************************************)
(* C17: for a register-form operand 2 whose shift amount comes from a      *)
(* register whose low 8 bits are 0, the shifter returns the value of Rm    *)
(* unchanged and a carry-out equal to the carry flag of cpsr, for every    *)
(* shift type.                                                             *)
(***************************************************************************)
C17_ShiftByRegisterZero ==
    [][ (/\ last'.op = "executeAluInstruction"
         /\ ~aborted'
         /\ 25 \notin last'.instr
         /\ 4 \in last'.instr
         /\ RmField(last'.instr) # PC_REGISTER
         /\ RsField(last'.instr) # PC_REGISTER
         /\ ShiftAmountAsked(last'.instr, cpsr, cells) = 0)
        => /\ last'.op2 = getRegister(cpsr, cells, RmField(last'.instr))
           /\ last'.shiftCarry = cpsr.C ]_vars

(***************************************************************************)
(* R15 as an operand: the program counter is set to a few addresses, and   *)
(* instructions are executed that read R15 as Rn, as Rm, or as both.       *)
(***************************************************************************)
MaxPcSets == 1

PcValues == {WordOf(4), WordOf(256)}

PcInstructions ==
    {DataProcImm(op, s, 15, 0, 0, 1) : op \in {ADD, MOV}, s \in {0, 1}}
    \cup {DataProcRegReg(op, s, rn, 0, 3, 0, 15) :
            op \in {ADD, MOV}, s \in {0, 1}, rn \in {1, 15}}
    \cup {DataProcRegImm(ADD, s, 15, 0, 0, 0, 1) : s \in {0, 1}}

NextPcOperand ==
    \/ /\ nSets < MaxPcSets
       /\ \E value \in PcValues : SetRegister(PC_REGISTER, value)
    \/ /\ nExecs < MaxExecs
       /\ \E instruction \in PcInstructions :
             ExecuteAluInstruction(instruction)

SpecPcOperand == Init /\ [][NextPcOperand]_vars

\* operand 2 is a register shifted by a register
ShiftByRegister(instruction) == 25 \notin instruction /\ 4 \in instruction

\* what a read of R15 as an operand yields
PcAsOperand(instruction, c, cl) ==
    Add32(getRegister(c, cl, PC_REGISTER),
          IF ShiftByRegister(instruction) THEN WordOf(12) ELSE WordOf(8))

(***************************************************************************)
(* C18: when R15 is read as an operand of a data-processing instruction,   *)
(* the value used is the stored program counter plus 12 if operand 2 is a  *)
(* register shifted by a register, plus 8 in every other form, never the   *)
(* stored value itself.  For Rn the value used is the first operand the    *)
(* operation receives; for Rm it is read off operand 2 where the shifter   *)
(* leaves its base unchanged (logical-left by a register holding 0).       *)
(***************************************************************************)
C18_PcOperandOffset ==
    [][ (/\ last'.op = "executeAluInstruction"
         /\ ~aborted')
        => /\ Field(last'.instr, 16, 4) = PC_REGISTER
                => last'.rnVal = PcAsOperand(last'.instr, cpsr, cells)
           /\ (/\ ShiftByRegister(last'.instr)
               /\ RmField(last'.instr) = PC_REGISTER
               /\ RsField(last'.instr) # PC_REGISTER
               /\ ShiftTypeField(last'.instr) = 0
               /\ ShiftAmountAsked(last'.instr, cpsr, cells) = 0)
                => last'.op2 = PcAsOperand(last'.instr, cpsr, cells) ]_vars

(***************************************************************************)
(* C19: executeAluInstruction selects the operation by the opcode field of *)
(* bits 24..21 alone: what it leaves in the registers and in the members   *)
(* zeroBit, signBit, carryBit and overflowBit is what the operation of     *)
(* that number in the opcode table leaves on the same operands, whatever   *)
(* the other bits of the word (bits 3..0 in particular) are.               *)
(***************************************************************************)
C19_OpcodeFromBits24To21 ==
    [][ (/\ last'.op = "executeAluInstruction"
         /\ ~aborted')
        => \A st \in {executeAluInstructionOperation(
                          OpcodeField(last'.instr), RdField(last'.instr),
                          last'.rnVal, last'.op2,
                          [cells |-> cells, lastWrite |-> lastWrite,
                           zeroBit |-> zeroBit, signBit |-> signBit,
                           carryBit |-> last'.shiftCarry,
                           overflowBit |-> overflowBit],
                          cpsr)} :
              /\ cells' = st.cells
              /\ zeroBit' = st.zeroBit
              /\ signBit' = st.signBit
              /\ carryBit' = st.carryBit
              /\ overflowBit' = st.overflowBit ]_vars

====
